---- MODULE Spec2Model ----
(***************************************************************************)
(* State-machine model of code/main.py: the experiment script that learns  *)
(* a state representation with robotic priors and, in Q-learning mode,     *)
(* interleaves one training epoch with n_qlearnings fitted-Q-iteration     *)
(* trials evaluated by rollout.                                            *)
(*                                                                         *)
(* main.py is a straight-line script; pc is the position in it.  The       *)
(* collaborators it calls (tools.learn_states, Priors_model, fqiteration,  *)
(* the gym environment) are modelled from their documented contracts.      *)
(***************************************************************************)
EXTENDS Integers, Sequences, FiniteSets, TLC

(***************************************************************************)
(* Bounds of the model and constants of the program                        *)
(***************************************************************************)
MaxEpochs == 10          \* largest --num_epochs explored
MaxSeed == 2             \* largest --seed explored (0 .. MaxSeed)
n_qlearnings == 10       \* main.py:139
n_test_episodes == 20    \* main.py:140
n_test_steps == 25       \* main.py:141
DatasetSize == 10        \* number of transition records in the loaded dataset

\* the four loss terms: 1 temporal coherence (val_t_loss), 2 proportionality
\* (val_p_loss), 3 causality (val_c_loss), 4 repeatability (val_r_loss)
TermIdx == 1..4

\* values of --validation_ratio, in tenths (0.1 is 1, 1.0 is 10)
RatioValues == {-1, 0, 5, 10, 11}
\* values of --recordto
RecordtoValues == {"", "out", "out/"}
\* values of --weights (wt, wp, wc, wr); the first is the argparse default
WeightValues == {<<1, 5, 1, 5>>, <<1, 0, 1, 5>>}
\* values of --seed: <<>> is the default None, <<s>> a supplied integer
SeedValues == {<<>>} \cup {<<s>> : s \in 0..MaxSeed}
\* values int(time.time()) can take when the script reaches line 76
ClockValues == {1000, 1001}

VARIABLES
  pc,                 \* position in the script
  error,              \* "none" or the exception that ended the run
  args,               \* the parsed argument namespace
  dir_created,        \* os.makedirs(args.recordto) has run
  rng,                \* state of np.random: <<>> before seeding, else [seed, draws]
  training_data,      \* TRUE once tools.load_data has returned
  jp_model,           \* <<>> before construction, else [params, loss_weights]
  states,             \* <<>> while undefined, else [params |-> version they derive from]
  history,            \* history.history of the last learn_states call
  loss_record,        \* the four *_loss_record variables, by term index
  test_performance,   \* the performance tensor: <<e, q>> -> id of the rollout stored (0: zero fill)
  tp_shape,           \* shape of the tensor
  env,                \* <<>> before make_round_bot_env, else the environment
  learning_epoch,     \* loop variable of the learning iteration loop
  q_learning,         \* loop variable of the qlearning loop
  qit,                \* the Fitted_QIteration instance (an instance id), 0 if none
  state_policy,       \* the policy, <<>> if none
  stats,              \* result of the last run_in_env, <<>> if none
  next_id,            \* next fresh object identity
  test_states,        \* tools.compute_states has run on the test data
  trainLog,           \* every learn_states call made, in order
  plotLog,            \* every plot_representation call made, in order
  fitLog,             \* every fit_sk call made, in order
  rolloutLog,         \* every run_in_env call made, in order
  writeLog            \* every assignment to a slice of test_performance, in order

vars == <<pc, error, args, dir_created, rng, training_data, jp_model, states, history,
          loss_record, test_performance, tp_shape, env, learning_epoch, q_learning,
          qit, state_policy, stats, next_id, test_states,
          trainLog, plotLog, fitLog, rolloutLog, writeLog>>

logs == <<trainLog, plotLog, fitLog, rolloutLog, writeLog>>

(***************************************************************************)
(* Python helpers                                                          *)
(***************************************************************************)
\* truth value of a str
TruthyStr(s) == s # ""

\* truth value of an Optional[int]: None and 0 are both false
TruthySeed(s) == s # <<>> /\ s[1] # 0

RECURSIVE SumSeq(_)
SumSeq(s) == IF s = <<>> THEN 0 ELSE Head(s) + SumSeq(Tail(s))

\* np.zeros(n)
Zeros(n) == [i \in 1..n |-> 0]

\* a float: finite with value v, or the nan / inf that numpy yields on x / 0.0
Finite(v) == [f |-> "finite", v |-> v]
NaN == [f |-> "nan", v |-> 0]
Inf == [f |-> "inf", v |-> 0]

\* numpy array / python float, elementwise; warnings are silenced (main.py:33)
NpDivide(x, w) ==
  IF w = 0 THEN (IF x = 0 THEN NaN ELSE Inf) ELSE Finite(x \div w)

(***************************************************************************)
(* Collaborators: np.random, tools.learn_states / Priors_model             *)
(***************************************************************************)
\* np.random.seed(s)
RngSeeded(s) == [seed |-> s, draws |-> 0]

\* the next value the generator yields, and the generator after yielding it
RngDraw(r) == (r.seed * 7 + r.draws * 3 + 1) % 11
RngNext(r) == [r EXCEPT !.draws = @ + 1]

\* parameters of a freshly constructed encoder; a parameter version is the
\* sequence of shuffles of the epochs it has been trained for
InitParams == <<>>

\* Splitting: |validation| = round(validation_ratio * |dataset|), the rest trains
Split(ratio) ==
  LET nval == (ratio * DatasetSize + 5) \div 10
  IN  [train |-> DatasetSize - nval, validation |-> nval]

\* one epoch of optimisation on the shuffled training split
TrainStep(p, r) == Append(p, RngDraw(r))

\* the weighted validation loss of term i under parameters p
ValLoss(i, p, w, split) ==
  w[i] * (1 + ((SumSeq(p) + i * Len(p) + split.validation) % 4))

\* Epoch(1..n): n more epochs from parameters p and generator r, each appending
\* its four validation losses to hist (hist[i] is the history of term i)
RECURSIVE TrainEpochs(_, _, _, _, _, _)
TrainEpochs(p, r, n, w, split, hist) ==
  IF n = 0
  THEN [params |-> p, rng |-> r, hist |-> hist]
  ELSE TrainEpochs(TrainStep(p, r), RngNext(r), n - 1, w, split,
                   [i \in TermIdx |->
                      Append(hist[i], ValLoss(i, TrainStep(p, r), w, split))])

EmptyHistory == [i \in TermIdx |-> <<>>]

\* tools.learn_states(training_data, model, num_epochs, ..., validation_ratio):
\* splits, trains the model in place for num_epochs, returns (states, history)
LearnStates(model, r, num_epochs, ratio) ==
  LET run == TrainEpochs(model.params, r, num_epochs, model.loss_weights,
                         Split(ratio), EmptyHistory)
  IN  [model |-> [model EXCEPT !.params = run.params],
       rng |-> run.rng,
       states |-> [params |-> run.params],
       history |-> run.hist]

\* jp_model.phi(X): the encoder applied with the model's current parameters
Phi(model) == model.params

(***************************************************************************)
(* main.py, lines 60-90: argument checks, seeding, data and model          *)
(***************************************************************************)
\* lines 60-61: a non-empty recordto gets a trailing '/'
NormalizeRecordto(r) ==
  IF TruthyStr(r) /\ r # "out/" THEN "out/" ELSE r

\* lines 66-73: the exception raised by the argument checks, "none" if none
ConfigError_closed(a) ==
  IF ~(TruthyStr(a.recordto) \/ a.display) THEN "Exception"
  ELSE IF a.qlearning /\ ~TruthyStr(a.recordto) THEN "Exception"
  ELSE IF a.validation_ratio < 0 \/ a.validation_ratio > 10 THEN "ValueError"
  ELSE "none"

ConfigError(a) ==
  IF ~(TruthyStr(a.recordto) \/ a.display) THEN "Exception"
  ELSE IF a.qlearning /\ ~TruthyStr(a.recordto) THEN "Exception"
  ELSE IF a.validation_ratio <= 0 \/ a.validation_ratio >= 10 THEN "ValueError"
  ELSE "none"

\* line 76: args.seed if args.seed else int(time.time())
SeedValue(seed, clock) == IF TruthySeed(seed) THEN seed[1] ELSE clock

\* the argument namespaces explored
ArgValues ==
  [recordto : RecordtoValues, display : BOOLEAN, qlearning : BOOLEAN,
   validation_ratio : RatioValues, num_epochs : 0..MaxEpochs,
   seed : SeedValues, weights : WeightValues, test_data : BOOLEAN]

\* state after argparse, with args drawn from A
InitWith(A) ==
  /\ pc = "start"
  /\ error = "none"
  /\ args \in A
  /\ dir_created = FALSE
  /\ rng = <<>>
  /\ training_data = FALSE
  /\ jp_model = <<>>
  /\ states = <<>>
  /\ history = <<>>
  /\ loss_record = <<>>
  /\ test_performance = <<>>
  /\ tp_shape = <<>>
  /\ env = <<>>
  /\ learning_epoch = 0
  /\ q_learning = 0
  /\ qit = 0
  /\ state_policy = <<>>
  /\ stats = <<>>
  /\ next_id = 1
  /\ test_states = FALSE
  /\ trainLog = <<>>
  /\ plotLog = <<>>
  /\ fitLog = <<>>
  /\ rolloutLog = <<>>
  /\ writeLog = <<>>

Init == InitWith(ArgValues)

\* lines 60-64
PrepareRecordto ==
  /\ pc = "start"
  /\ args' = [args EXCEPT !.recordto = NormalizeRecordto(@)]
  /\ dir_created' = TruthyStr(args'.recordto)
  /\ pc' = "validate"
  /\ UNCHANGED <<error, rng, training_data, jp_model, states, history, loss_record,
                 test_performance, tp_shape, env, learning_epoch, q_learning, qit,
                 state_policy, stats, next_id, test_states, logs>>

\* lines 66-73
ValidateArgs ==
  /\ pc = "validate"
  /\ error' = ConfigError(args)
  /\ pc' = IF error' = "none" THEN "seed" ELSE "failed"
  /\ UNCHANGED <<args, dir_created, rng, training_data, jp_model, states, history,
                 loss_record, test_performance, tp_shape, env, learning_epoch,
                 q_learning, qit, state_policy, stats, next_id, test_states, logs>>

\* line 76
InitSeed ==
  /\ pc = "seed"
  /\ \E clock \in ClockValues : rng' = RngSeeded(SeedValue(args.seed, clock))
  /\ pc' = "load"
  /\ UNCHANGED <<error, args, dir_created, training_data, jp_model, states, history,
                 loss_record, test_performance, tp_shape, env, learning_epoch,
                 q_learning, qit, state_policy, stats, next_id, test_states, logs>>

\* line 80
LoadData ==
  /\ pc = "load"
  /\ training_data' = TRUE
  /\ pc' = "model"
  /\ UNCHANGED <<error, args, dir_created, rng, jp_model, states, history,
                 loss_record, test_performance, tp_shape, env, learning_epoch,
                 q_learning, qit, state_policy, stats, next_id, test_states, logs>>

\* lines 82-90
CreateModel ==
  /\ pc = "model"
  /\ jp_model' = [params |-> InitParams, loss_weights |-> args.weights]
  /\ pc' = IF args.qlearning THEN "setup" ELSE "direct"
  /\ UNCHANGED <<error, args, dir_created, rng, training_data, states, history,
                 loss_record, test_performance, tp_shape, env, learning_epoch,
                 q_learning, qit, state_policy, stats, next_id, test_states, logs>>

(***************************************************************************)
(* main.py, lines 94-116: representation-only branch                       *)
(***************************************************************************)
\* lines 96-116: one learn_states call for all the epochs; the loss records
\* are the histories it returns; the test data is encoded if given
LearnDirect ==
  /\ pc = "direct"
  /\ LET res == LearnStates(jp_model, rng, args.num_epochs, args.validation_ratio)
     IN  /\ jp_model' = res.model
         /\ rng' = res.rng
         /\ states' = res.states
         /\ history' = res.history
         /\ loss_record' = [i \in TermIdx |-> res.history[i]]
         /\ trainLog' = Append(trainLog, [num_epochs |-> args.num_epochs,
                                          history |-> res.history,
                                          params |-> res.model.params])
  /\ test_states' = args.test_data
  /\ pc' = "report"
  /\ UNCHANGED <<error, args, dir_created, training_data, test_performance, tp_shape,
                 env, learning_epoch, q_learning, qit, state_policy, stats, next_id,
                 plotLog, fitLog, rolloutLog, writeLog>>

(***************************************************************************)
(* main.py, lines 122-249: Q-learning branch                               *)
(***************************************************************************)
\* line 146: np.zeros([num_epochs, n_qlearnings, n_test_episodes, n_test_steps]);
\* a slice [e, q, :, :] is held as the id of the rollout whose rewards it stores
ZeroTensor(n) == [ix \in (0..(n - 1)) \X (0..(n_qlearnings - 1)) |-> 0]

\* line 160: obs2states = lambda X: jp_model.phi(X); the name jp_model is
\* looked up when the hook is called
obs2states_captured(model) == InitParams

obs2states(model) == Phi(model)

\* lines 124-196
SetupQLearning ==
  /\ pc = "setup"
  /\ test_performance' = ZeroTensor(args.num_epochs)
  /\ tp_shape' = <<args.num_epochs, n_qlearnings, n_test_episodes, n_test_steps>>
  /\ env' = [observation_transformation |-> "obs2states", max_step |-> n_test_steps,
             random_start |-> TRUE]
  /\ loss_record' = [i \in TermIdx |-> Zeros(args.num_epochs)]
  /\ learning_epoch' = 0
  /\ pc' = "loop"
  /\ UNCHANGED <<error, args, dir_created, rng, training_data, jp_model, states,
                 history, q_learning, qit, state_policy, stats, next_id, test_states,
                 logs>>

\* line 198: for learning_epoch in range(args.num_epochs)
EpochInRange_short(e, n) == e + 1 < n

EpochInRange(e, n) == e < n

\* line 203: num_epochs=1
EpochsPerCall_two == 1 + 1

EpochsPerCall == 1

\* lines 211-214: record[learning_epoch] = history.history[...][0]
RecordLoss_first(rec, e, h) == [rec EXCEPT ![1] = h[1]]

RecordLoss(rec, e, h) == [rec EXCEPT ![e + 1] = h[1]]

\* lines 200-214
LearnEpoch ==
  /\ pc = "loop"
  /\ EpochInRange(learning_epoch, args.num_epochs)
  /\ LET res == LearnStates(jp_model, rng, EpochsPerCall, args.validation_ratio)
     IN  /\ jp_model' = res.model
         /\ rng' = res.rng
         /\ states' = res.states
         /\ history' = res.history
         /\ loss_record' = [i \in TermIdx |->
                              RecordLoss(loss_record[i], learning_epoch, res.history[i])]
         /\ trainLog' = Append(trainLog, [num_epochs |-> EpochsPerCall,
                                          history |-> res.history,
                                          params |-> res.model.params])
  /\ pc' = "plot"
  /\ UNCHANGED <<error, args, dir_created, training_data, test_performance, tp_shape,
                 env, learning_epoch, q_learning, qit, state_policy, stats, next_id,
                 test_states, plotLog, fitLog, rolloutLog, writeLog>>

\* line 198, range exhausted: on to the plotting section
ExitLoop ==
  /\ pc = "loop"
  /\ ~EpochInRange(learning_epoch, args.num_epochs)
  /\ pc' = "report"
  /\ UNCHANGED <<error, args, dir_created, rng, training_data, jp_model, states,
                 history, loss_record, test_performance, tp_shape, env, learning_epoch,
                 q_learning, qit, state_policy, stats, next_id, test_states, logs>>

\* line 217
PlotDue_fifth(e) == e % 5 = 0

PlotDue(e) == e = 0 \/ (e + 1) % 5 = 0

\* lines 217-228, then line 232 starts the qlearning loop
PlotRepresentation ==
  /\ pc = "plot"
  /\ plotLog' = IF PlotDue(learning_epoch)
                THEN Append(plotLog, [epoch |-> learning_epoch + 1,
                                      states |-> states,
                                      trainings |-> Len(trainLog),
                                      fits |-> Len(fitLog)])
                ELSE plotLog
  /\ q_learning' = 0
  /\ pc' = "qloop"
  /\ UNCHANGED <<error, args, dir_created, rng, training_data, jp_model, states,
                 history, loss_record, test_performance, tp_shape, env, learning_epoch,
                 qit, state_policy, stats, next_id, test_states,
                 trainLog, fitLog, rolloutLog, writeLog>>

\* line 232: for q_learning in range(n_qlearnings)
TrialInRange(q) == q < n_qlearnings

\* line 237: qit.fit_sk(states, actions_int, rewards, 0.9, 10, recompute_mapping=True)
fit_sk_reuse(learner, s) ==
  [learner |-> learner, states |-> s, recompute_mapping |-> FALSE, plugged |-> FALSE]

fit_sk(learner, s) ==
  [learner |-> learner, states |-> s, recompute_mapping |-> TRUE, plugged |-> FALSE]

\* line 239: policy.Plug_policy(state_policy, env.controller.action_space_int)
Plug_policy(policy) == [policy EXCEPT !.plugged = TRUE]

\* lines 235-237: a new learner, and the policy it fits on the current states
FitPolicy ==
  /\ pc = "qloop"
  /\ TrialInRange(q_learning)
  /\ qit' = next_id
  /\ next_id' = next_id + 1
  /\ state_policy' = fit_sk(qit', states)
  /\ fitLog' = Append(fitLog, [epoch |-> learning_epoch, trial |-> q_learning,
                               policy |-> state_policy'])
  /\ pc' = "rollout"
  /\ UNCHANGED <<error, args, dir_created, rng, training_data, jp_model, states,
                 history, loss_record, test_performance, tp_shape, env, learning_epoch,
                 q_learning, stats, test_states,
                 trainLog, plotLog, rolloutLog, writeLog>>

\* lines 239-243: the agent runs n_test_episodes episodes in env; the env encodes
\* each observation through its hook; the rewards it collects are not determined
\* by the script (random_start=True, seed=None)
RunAgent ==
  /\ pc = "rollout"
  /\ state_policy' = Plug_policy(state_policy)
  /\ \E reward \in {0, 1} :
       stats' = [rollout |-> next_id, reward_ep |-> reward,
                 shape |-> <<n_test_episodes * env.max_step>>]
  /\ next_id' = next_id + 1
  /\ rolloutLog' = Append(rolloutLog, [epoch |-> learning_epoch, trial |-> q_learning,
                                       policy |-> state_policy',
                                       encoder |-> obs2states(jp_model),
                                       rollout |-> next_id])
  /\ pc' = "record"
  /\ UNCHANGED <<error, args, dir_created, rng, training_data, jp_model, states,
                 history, loss_record, test_performance, tp_shape, env, learning_epoch,
                 q_learning, qit, test_states,
                 trainLog, plotLog, fitLog, writeLog>>

\* line 245: test_performance[learning_epoch, q_learning, :, :] = reshape(rewards)
WriteSlice_row(tp, e, q, rollout) == [tp EXCEPT ![<<e, 0>>] = rollout]

WriteSlice(tp, e, q, rollout) == [tp EXCEPT ![<<e, q>>] = rollout]

\* lines 245-249
RecordPerformance ==
  /\ pc = "record"
  /\ stats.shape = <<tp_shape[3] * tp_shape[4]>>
  /\ test_performance' = WriteSlice(test_performance, learning_epoch, q_learning,
                                    stats.rollout)
  /\ writeLog' = Append(writeLog, [epoch |-> learning_epoch, trial |-> q_learning,
                                   rollout |-> stats.rollout])
  /\ q_learning' = q_learning + 1
  /\ pc' = "qloop"
  /\ UNCHANGED <<error, args, dir_created, rng, training_data, jp_model, states,
                 history, loss_record, tp_shape, env, learning_epoch, qit,
                 state_policy, stats, next_id, test_states,
                 trainLog, plotLog, fitLog, rolloutLog>>

\* line 232, range exhausted: next learning epoch
EndTrials ==
  /\ pc = "qloop"
  /\ ~TrialInRange(q_learning)
  /\ learning_epoch' = learning_epoch + 1
  /\ pc' = "loop"
  /\ UNCHANGED <<error, args, dir_created, rng, training_data, jp_model, states,
                 history, loss_record, test_performance, tp_shape, env, q_learning,
                 qit, state_policy, stats, next_id, test_states, logs>>

(***************************************************************************)
(* main.py, lines 252-326: plotting                                        *)
(***************************************************************************)
\* lines 257-260: each record divided by its weight
Unweight(record, weights) ==
  [i \in TermIdx |-> [e \in DOMAIN record[i] |-> NpDivide(record[i][e], weights[i])]]

\* lines 256-283
ReportLosses ==
  /\ pc = "report"
  /\ loss_record' = Unweight(loss_record, args.weights)
  /\ pc' = "pca"
  /\ UNCHANGED <<error, args, dir_created, rng, training_data, jp_model, states,
                 history, test_performance, tp_shape, env, learning_epoch, q_learning,
                 qit, state_policy, stats, next_id, test_states, logs>>

\* lines 289-302: states is unbound if no learn_states call was made
ReportPCA ==
  /\ pc = "pca"
  /\ error' = IF states = <<>> THEN "NameError" ELSE "none"
  /\ pc' = IF states = <<>> THEN "failed" ELSE "rewards"
  /\ UNCHANGED <<args, dir_created, rng, training_data, jp_model, states, history,
                 loss_record, test_performance, tp_shape, env, learning_epoch,
                 q_learning, qit, state_policy, stats, next_id, test_states, logs>>

\* lines 308-326: in Q-learning mode the tensor is read and plotted
ReportRewards ==
  /\ pc = "rewards"
  /\ pc' = "done"
  /\ UNCHANGED <<error, args, dir_created, rng, training_data, jp_model, states,
                 history, loss_record, test_performance, tp_shape, env, learning_epoch,
                 q_learning, qit, state_policy, stats, next_id, test_states, logs>>

Next ==
  \/ PrepareRecordto
  \/ ValidateArgs
  \/ InitSeed
  \/ LoadData
  \/ CreateModel
  \/ LearnDirect
  \/ SetupQLearning
  \/ LearnEpoch
  \/ ExitLoop
  \/ PlotRepresentation
  \/ FitPolicy
  \/ RunAgent
  \/ RecordPerformance
  \/ EndTrials
  \/ ReportLosses
  \/ ReportPCA
  \/ ReportRewards

Spec == Init /\ [][Next]_vars

\* Termination is explored with the arguments that no loop bound reads held
\* fixed.  The script is one sequential process: a step that can be taken is
\* eventually taken.
FairArgValues ==
  {a \in ArgValues : /\ a.display /\ ~a.test_data
                     /\ a.seed = <<1>> /\ a.weights = <<1, 5, 1, 5>>
                     /\ a.recordto \in {"", "out"}
                     /\ a.validation_ratio \in {0, 5}}

FairSpec == InitWith(FairArgValues) /\ [][Next]_vars /\ WF_vars(Next)

(***************************************************************************)
(* Properties                                                              *)
(***************************************************************************)
NumEpochs == args.num_epochs

Reporting == pc \in {"report", "pca", "rewards", "done"} \/ error = "NameError"

\* the argument combinations the three checks are meant to reject
NoOutput == ~(TruthyStr(args.recordto) \/ args.display)
QLearningUnrecorded == args.qlearning /\ ~TruthyStr(args.recordto)
RatioOutside == ~(0 < args.validation_ratio /\ args.validation_ratio < 10)
BadConfig == NoOutput \/ QLearningUnrecorded \/ RatioOutside

NothingStarted ==
  /\ ~training_data
  /\ jp_model = <<>>
  /\ trainLog = <<>> /\ fitLog = <<>> /\ rolloutLog = <<>>

\* C1: once the argument checks have run, a configuration with no output
\* selected, or Q-learning without a recording destination, or a validation
\* ratio outside ]0,1[ (0.0 and 1.0 included) has ended in an error with no
\* dataset loaded, no model built and no training, fit or rollout made; any
\* other configuration has raised no configuration error.
C1_ConfigErrorsFailFast ==
  pc \notin {"start", "validate"} =>
    /\ BadConfig => /\ pc = "failed"
                    /\ error \in {"Exception", "ValueError"}
                    /\ NothingStarted
    /\ ~BadConfig => error \notin {"Exception", "ValueError"}

C1_Witness ==
  /\ pc = "failed" /\ error = "ValueError"
  /\ args.validation_ratio = 10 /\ args.qlearning /\ args.recordto = "out/"
  /\ NothingStarted

\* C2 (as stated): in both modes the run makes num_epochs training calls of
\* one epoch each, and entry e of each loss record is the validation loss of
\* the e-th call.
C2_OneEpochPerIteration ==
  pc = "report" =>
    /\ Len(trainLog) = NumEpochs
    /\ \A e \in 1..Len(trainLog) : trainLog[e].num_epochs = 1
    /\ \A i \in TermIdx :
         /\ Len(loss_record[i]) = NumEpochs
         /\ \A e \in 1..NumEpochs : e <= Len(trainLog) =>
              loss_record[i][e] = trainLog[e].history[i][1]

\* C2 (amended): in Q-learning mode the run makes num_epochs training calls of
\* one epoch each and entry e of each loss record is the validation loss of
\* the e-th call; in representation-only mode it makes one training call for
\* num_epochs epochs and the loss records are that call's per-epoch histories;
\* in both modes each record has num_epochs entries.
C2_TrainingCallsPerMode ==
  pc = "report" =>
    /\ \A i \in TermIdx : Len(loss_record[i]) = NumEpochs
    /\ args.qlearning =>
         /\ Len(trainLog) = NumEpochs
         /\ \A e \in 1..NumEpochs :
              /\ trainLog[e].num_epochs = 1
              /\ \A i \in TermIdx : loss_record[i][e] = trainLog[e].history[i][1]
    /\ ~args.qlearning =>
         /\ Len(trainLog) = 1
         /\ trainLog[1].num_epochs = NumEpochs
         /\ \A i \in TermIdx : loss_record[i] = trainLog[1].history[i]

C2_Witness ==
  /\ pc = "report" /\ ~args.qlearning /\ NumEpochs = 3
  /\ Len(trainLog) = 1 /\ Len(loss_record[1]) = 3

\* C3: in Q-learning mode the loop, once entered, always reaches the plotting
\* section, and when it does exactly num_epochs training calls and
\* num_epochs * n_qlearnings fits and rollouts have been made, whatever the
\* losses and rewards were.
C3_LoopCounts ==
  (args.qlearning /\ Reporting) =>
    /\ Len(trainLog) = NumEpochs
    /\ Len(fitLog) = NumEpochs * n_qlearnings
    /\ Len(rolloutLog) = NumEpochs * n_qlearnings

C3_LoopRunsToCompletion ==
  /\ []C3_LoopCounts
  /\ (pc = "setup") ~> (pc = "report")

C3_Witness ==
  /\ pc = "report" /\ args.qlearning /\ NumEpochs = 2
  /\ Len(trainLog) = 2 /\ Len(rolloutLog) = 2 * n_qlearnings
  /\ stats.reward_ep = 1

\* the slices of the tensor, and the position of slice <<e, q>> in the
\* lexicographic order of (epoch, trial)
Slices == (0..(NumEpochs - 1)) \X (0..(n_qlearnings - 1))
Rank(ix) == ix[1] * n_qlearnings + ix[2] + 1

\* C4: the tensor has shape [num_epochs, n_qlearnings, n_test_episodes,
\* n_test_steps]; the k-th write goes to the k-th slice in (epoch, trial) order
\* and stores the rewards of the rollout of that epoch and trial, so no slice
\* is written twice and the written slices are a lexicographic prefix; every
\* slice holds its own rollout's rewards if written and the zero fill if not;
\* and when the plotting section is reached every slice has been written.
C4_TensorFilledInOrder ==
  tp_shape # <<>> =>
    /\ tp_shape = <<NumEpochs, n_qlearnings, n_test_episodes, n_test_steps>>
    /\ DOMAIN test_performance = Slices
    /\ Len(writeLog) <= NumEpochs * n_qlearnings
    /\ \A k \in 1..Len(writeLog) :
         /\ Rank(<<writeLog[k].epoch, writeLog[k].trial>>) = k
         /\ rolloutLog[k].epoch = writeLog[k].epoch
         /\ rolloutLog[k].trial = writeLog[k].trial
         /\ rolloutLog[k].rollout = writeLog[k].rollout
    /\ \A ix \in Slices :
         test_performance[ix] =
           IF Rank(ix) <= Len(writeLog) THEN writeLog[Rank(ix)].rollout ELSE 0
    /\ Reporting => \A ix \in Slices : test_performance[ix] # 0

C4_Witness ==
  /\ pc = "rewards" /\ args.qlearning /\ NumEpochs = 2
  /\ Len(writeLog) = 2 * n_qlearnings
  /\ \A ix \in Slices : test_performance[ix] # 0

\* C5: the policy rolled out for the k-th (epoch, trial) pair is the one fit in
\* that trial, by a learner created in that trial and used by no other, with
\* recompute_mapping=True, on the states returned by that epoch's training
\* call; each policy is rolled out at most once.
C5_FreshPolicyPerTrial ==
  /\ Len(rolloutLog) <= Len(fitLog) /\ Len(fitLog) <= Len(rolloutLog) + 1
  /\ \A k \in 1..Len(fitLog) :
       /\ Rank(<<fitLog[k].epoch, fitLog[k].trial>>) = k
       /\ fitLog[k].policy.recompute_mapping
       /\ fitLog[k].policy.states = [params |-> trainLog[fitLog[k].epoch + 1].params]
       /\ \A j \in 1..(k - 1) : fitLog[j].policy.learner # fitLog[k].policy.learner
  /\ \A k \in 1..Len(rolloutLog) :
       /\ rolloutLog[k].epoch = fitLog[k].epoch
       /\ rolloutLog[k].trial = fitLog[k].trial
       /\ rolloutLog[k].policy = Plug_policy(fitLog[k].policy)

C5_Witness ==
  /\ Len(rolloutLog) = n_qlearnings + 2
  /\ rolloutLog[n_qlearnings + 2].epoch = 1
  /\ rolloutLog[n_qlearnings + 2].policy.states.params # rolloutLog[1].policy.states.params

\* the validation histories of one training call for all the epochs, from a
\* new model and the generator as seeded
OneCallHistory ==
  TrainEpochs(InitParams, RngSeeded(rng.seed), NumEpochs, args.weights,
              Split(args.validation_ratio), EmptyHistory).hist

EpochsPastPlot ==
  IF pc \in {"qloop", "rollout", "record"} THEN learning_epoch + 1 ELSE learning_epoch

C8_ParametersFrozenDuringEvaluation ==
  /\ jp_model # <<>> =>
       jp_model.params = IF trainLog = <<>> THEN InitParams
                         ELSE trainLog[Len(trainLog)].params
  /\ \A k \in 1..Len(fitLog) :
       fitLog[k].policy.states.params = trainLog[fitLog[k].epoch + 1].params
  /\ \A k \in 1..Len(rolloutLog) :
       /\ rolloutLog[k].encoder = trainLog[rolloutLog[k].epoch + 1].params
       /\ Len(rolloutLog[k].encoder) = rolloutLog[k].epoch + 1

C8_Witness ==
  /\ Len(rolloutLog) = 2 * n_qlearnings
  /\ rolloutLog[2 * n_qlearnings].epoch = 1
  /\ rolloutLog[2 * n_qlearnings].encoder = jp_model.params
  /\ rolloutLog[2 * n_qlearnings].encoder # rolloutLog[1].encoder

\* the weighted validation loss recorded for term i at epoch e
Weighted(i, e) ==
  IF args.qlearning THEN trainLog[e].history[i][1] ELSE trainLog[1].history[i][e]

\* C9: after the unweighting step every entry of every loss record is a finite
\* number, the recorded weighted loss divided by its term's weight, and no
\* division by zero was made.
C9_UnweightingWellDefined ==
  pc \in {"pca", "rewards", "done"} =>
    \A i \in TermIdx : \A e \in DOMAIN loss_record[i] :
      /\ args.weights[i] # 0
      /\ loss_record[i][e].f = "finite"
      /\ loss_record[i][e].v * args.weights[i] = Weighted(i, e)

\* C10: once the generator is seeded, a seed supplied on the command line
\* (0 included) is the value it was seeded with.
C10_SuppliedSeedIsUsed ==
  (rng # <<>> /\ args.seed # <<>>) => rng.seed = args.seed[1]

====
